---- MODULE Spec2Model ----
(***************************************************************************)
(* Book Repository (src/app.py): a Flask application over three MongoDB    *)
(* collections (User, Book, Genre) and a per-browser session.  Requests of *)
(* different sessions are served concurrently; a handler is a sequence of  *)
(* steps, one per round trip to the store or to the metadata service, and  *)
(* the steps of different requests interleave.  A session has at most one  *)
(* request in progress.                                                    *)
(*                                                                         *)
(* Encodings.                                                              *)
(*  - A text value is a sequence of one-character strings, so that         *)
(*    substring search, case folding and ordering are computed.  Python's  *)
(*    None is the one-element sequence <<"None">>.                         *)
(*  - A submitted number (isbn, rating) is a record [t, v]: t = "none"     *)
(*    (field absent, request.form.get gives None), t = "bad" (text that    *)
(*    int() rejects, such as ""), t = "int" with value v.  ISBN values are *)
(*    small naturals standing for 10- or 13-digit numbers.                 *)
(*  - A User document carries its id; the collection is the set of the     *)
(*    documents, which may hold several with one username.  An id is the   *)
(*    pair of the username the document was saved with and a number that   *)
(*    tells the documents of one username apart.  A session names its      *)
(*    account by id (Flask-Login's user loader); a session whose account   *)
(*    is deleted is anonymous from then on.  The id <<>> stands for an id  *)
(*    that no account has.                                                 *)
(*  - Book documents live in numbered slots; the slot number is the        *)
(*    document id handed to edit/update/delete.  An id is given to a new   *)
(*    document only when no document and no request in progress holds it,  *)
(*    so a request never meets another document under the id it fetched.   *)
(*    The id 0 stands for an id that no document has.                      *)
(***************************************************************************)
EXTENDS Integers, Sequences, FiniteSets, TLC

VARIABLES users, books, genres, sessions, calls, resp

vars == <<users, books, genres, sessions, calls, resp>>

(***************************************************************************)
(* Bounds of the model.                                                    *)
(***************************************************************************)
\* number of Book documents stored at a time
MaxBooks == 2
\* number of User documents stored at a time
MaxUsers == 3
\* largest page number a request asks for
MaxPage == 2
\* number of Book documents in the catalogs that are searched
MaxShelf == 2
\* number of Book documents in the populated catalogs of the paging runs
MaxCatalog == 8
\* number of extra accounts in the populated directories of the paging runs
MaxMembers == 10

(***************************************************************************)
(* Program constants.                                                      *)
(***************************************************************************)
\* per_page of the two Book listings (member_page, search_results)
BooksPerPage == 7
\* per_page of the account listing (admin_dashboard)
UsersPerPage == 10

(***************************************************************************)
(* Text.                                                                   *)
(***************************************************************************)
None == <<"None">>

\* the characters the model's texts use, in code-point order
Alphabet == <<"1", "2", "D", "E", "a", "b", "d", "e", "i", "m", "n", "o", "u">>

\* position of a character in code-point order
Code(c) == CHOOSE i \in 1..Len(Alphabet) : Alphabet[i] = c

\* case folding of one character (the re.IGNORECASE flag of icontains)
LowerChar(c) ==
    CASE c = "D" -> "d"
      [] c = "E" -> "e"
      [] OTHER -> c

Lower(s) == [i \in 1..Len(s) |-> LowerChar(s[i])]

\* needle occurs in hay (a Python/regex substring test); "" occurs everywhere
Contains(hay, needle) ==
    \E i \in 0..(Len(hay) - Len(needle)) :
        \A k \in 1..Len(needle) : hay[i + k] = needle[k]

\* MongoEngine's field__icontains=needle
IContains(hay, needle) == Contains(Lower(hay), Lower(needle))

\* MongoDB's ordering of strings: binary comparison, shorter prefix first
StrLess(a, b) ==
    \E k \in 1..(Len(a) + 1) :
        /\ \A j \in 1..(k - 1) : j <= Len(b) /\ a[j] = b[j]
        /\ k <= Len(b)
        /\ (k > Len(a) \/ Code(a[k]) < Code(b[k]))


(***************************************************************************)
(* Documents.                                                              *)
(***************************************************************************)
NoInt == [t |-> "none", v |-> 0]
BadInt == [t |-> "bad", v |-> 0]
Int_(n) == [t |-> "int", v |-> n]

AdminName == <<"a", "d", "m", "i", "n">>
Ann == <<"a", "n", "n">>
Bob == <<"b", "o", "b">>
NoUser == <<>>

\* user_manager.hash_password: a bcrypt hash, which carries the "$2b$" prefix
HashPassword(p) ==
    CASE p = "adminpw" -> "$2b$adminpw"
      [] p = "pw0" -> "$2b$pw0"
      [] p = "pw1" -> "$2b$pw1"
      [] OTHER -> "$2b$other"

\* str.startswith("$2b$")
StartsWith2b(p) == p \in {"$2b$adminpw", "$2b$pw0", "$2b$pw1", "$2b$other"}

\* the id of a document that is not saved, and an id no account has
NoId == <<>>

\* a new document whose roles are one list shared by every document, which
\* home_page's roles.append("Admin") has extended
NewUserSharedRoles(name, pw, mail) ==
    [id |-> NoId, username |-> name, active |-> TRUE, password |-> pw, email |-> mail,
     first_name |-> <<>>, last_name |-> <<>>,
     roles |-> IF \E u \in users : \E i \in 1..Len(u.roles) : u.roles[i] = "Admin"
               THEN <<"user", "Admin">> ELSE <<"user">>]

\* class User: the defaults of a new document, which has no id before save()
NewUser(name, pw, mail) ==
    [id |-> NoId, username |-> name, active |-> TRUE, password |-> pw, email |-> mail,
     first_name |-> <<>>, last_name |-> <<>>, roles |-> <<"user">>]

HasRole(u, r) == \E i \in 1..Len(u.roles) : u.roles[i] = r

UserIds == {u.id : u \in users}

\* User.objects.get(id=user_id)
UserById(i) == CHOOSE u \in users : u.id = i

Exists(name) == \E u \in users : u.username = name

\* the first document with the username (Flask-User's find_user_by_username)
UserNamed(name) ==
    CHOOSE u \in users :
        /\ u.username = name
        /\ \A v \in users : v.username = name => u.id[2] <= v.id[2]

\* BaseField.__set__: None becomes the field's default
TextOr(v, default) == IF v = None THEN default ELSE v

StrOr(v, default) == IF v = "None" THEN default ELSE v

\* class Book: a document built from keyword values, None taking the default
NewBook(f, owner, now, thumb) ==
    [title |-> TextOr(f.title, <<>>), author |-> TextOr(f.author, <<>>),
     year |-> f.year, ISBN |-> f.isbn,
     short_description |-> TextOr(f.short_description, <<>>),
     user |-> owner, creation_date |-> now,
     comments |-> TextOr(f.comments, <<>>), rating |-> f.rating,
     genre |-> StrOr(f.genre, ""), private_view |-> StrOr(f.private_view, "off"),
     book_thumbnail |-> thumb]

\* IntField.validate, and the choices of rating
ValidInt(x) == x.t # "bad"

ValidBook(b) ==
    /\ ValidInt(b.year)
    /\ ValidInt(b.ISBN)
    /\ ValidInt(b.rating)
    /\ b.rating.t = "int" => b.rating.v \in 1..10

BookIds == DOMAIN books

(***************************************************************************)
(* Queries.                                                                *)
(***************************************************************************)
\* a queryset's documents in order: x is at position 1 + |{y : y before x}|,
\* rank[x] being the number of documents before x
Ranked(S, rank) ==
    [i \in 1..Cardinality(S) |-> CHOOSE x \in S : rank[x] = i - 1]

\* MongoDB's ascending order of a text field: null before every string
TextLess(a, b) ==
    IF a = None THEN b # None
    ELSE IF b = None THEN FALSE
    ELSE StrLess(a, b)

\* ascending order of an integer field: a missing value before every number
IntLess(a, b) ==
    IF a.t # "int" THEN b.t = "int"
    ELSE IF b.t # "int" THEN FALSE
    ELSE a.v < b.v

\* Book.meta "ordering": ["title"]; equal titles stay in insertion order
ByTitle(i, j) ==
    \/ TextLess(books[i].title, books[j].title)
    \/ books[i].title = books[j].title /\ i < j

\* order_by("+title", "+author", "-rating"); ties stay in insertion order
ByTitleAuthorRating(i, j) ==
    \/ TextLess(books[i].title, books[j].title)
    \/ /\ books[i].title = books[j].title
       /\ \/ TextLess(books[i].author, books[j].author)
          \/ /\ books[i].author = books[j].author
             /\ \/ IntLess(books[j].rating, books[i].rating)
                \/ books[i].rating = books[j].rating /\ i < j

\* User.objects().order_by("username"); equal names stay in insertion order
ByUsername(i, j) ==
    \/ StrLess(UserById(i).username, UserById(j).username)
    \/ UserById(i).username = UserById(j).username /\ i[2] < j[2]

\* a queryset of documents in the default ordering
SortedByTitle(S) ==
    Ranked(S, [x \in S |-> Cardinality({y \in S : ByTitle(y, x)})])

\* a queryset of documents after order_by("+title", "+author", "-rating")
SortedByTitleAuthorRating(S) ==
    Ranked(S, [x \in S |-> Cardinality({y \in S : ByTitleAuthorRating(y, x)})])

\* the accounts (by id) after order_by("username")
SortedByUsername(S) ==
    Ranked(S, [x \in S |-> Cardinality({y \in S : ByUsername(y, x)})])

Min(a, b) == IF a < b THEN a ELSE b

\* flask_mongoengine's paginate(page, per_page): 404 below page 1 and on an
\* empty page other than the first, else the page's slice
Paginate(seq, page, per_page) ==
    LET start == (page - 1) * per_page
        items == IF page < 1 THEN <<>>
                 ELSE SubSeq(seq, start + 1, Min(page * per_page, Len(seq)))
    IN  IF page < 1 \/ (items = <<>> /\ page # 1)
        THEN [status |-> "404", items |-> <<>>]
        ELSE [status |-> "ok", items |-> items]

\* member_page's queryset: the requester's own documents
MemberBooks(me) == {i \in BookIds : books[i].user = me}

\* int(fields["ISBN"]), 0 on ValueError and on TypeError
FormIsbn(x) == IF x.t = "int" THEN x.v ELSE 0

\* int(fields["rating"]), 1 on ValueError, 0 on TypeError
FormRating(x) ==
    CASE x.t = "int" -> x.v
      [] x.t = "bad" -> 1
      [] OTHER -> 0

\* a private view that does not filter by owner
ScopeAnyOwner(b, private_view, me) ==
    IF private_view = "on" THEN TRUE ELSE b.private_view = "off"

\* the visibility scope of a search: the requester's own documents in
\* private view, the documents flagged "off" otherwise
Scope(b, private_view, me) ==
    IF private_view = "on" THEN b.user = me ELSE b.private_view = "off"

\* `if form_isbn:` selects the exact-identifier query
IsbnGiven(crit) == FormIsbn(crit.ISBN) # 0

\* the documents the selected query matches
Matches(b, crit, me) ==
    IF IsbnGiven(crit)
    THEN /\ Scope(b, crit.private_view, me)
         /\ b.ISBN = Int_(FormIsbn(crit.ISBN))
    ELSE /\ Scope(b, crit.private_view, me)
         /\ b.title # None /\ IContains(b.title, crit.title)
         /\ b.author # None /\ IContains(b.author, crit.author)
         /\ b.rating.t = "int" /\ b.rating.v >= FormRating(crit.rating)
         /\ crit.genre # "None" => b.genre = crit.genre

\* title__icontains=None makes the query raise when it is evaluated
QueryRaises(crit) ==
    ~IsbnGiven(crit) /\ (crit.title = None \/ crit.author = None)

SearchIds(crit, me) == {i \in BookIds : Matches(books[i], crit, me)}

\* the identifier query keeps the default ordering, the others order_by
SearchSeq(crit, me) ==
    IF IsbnGiven(crit)
    THEN SortedByTitle(SearchIds(crit, me))
    ELSE SortedByTitleAuthorRating(SearchIds(crit, me))
(***************************************************************************)
(* The inputs of the requests.                                             *)
(***************************************************************************)
Dune == <<"D", "u", "n", "e">>
Emma == <<"E", "m", "m", "a">>

\* a submitted book form; "user" is a field the handlers do not read
BookForm(title, author, isbn, rating, genre, private_view, user) ==
    [title |-> title, author |-> author, year |-> Int_(1), isbn |-> isbn,
     short_description |-> <<"d">>, comments |-> <<>>, rating |-> rating,
     genre |-> genre, private_view |-> private_view, user |-> user]

DuneForm == BookForm(Dune, <<"a">>, Int_(1), Int_(5), "Fantasy", "None", Bob)
EmmaForm == BookForm(Emma, <<"b">>, Int_(2), Int_(7), "Horror", "on", AdminName)
\* a form whose isbn is not a number
BadForm == BookForm(Dune, <<"a">>, BadInt, NoInt, "None", "on", Ann)

Lookups == {"error", "nothumb", "http://t"}

Stores == {"ok", "fail"}

Envs == {"ok", "nofile"}

\* the usernames registration is asked for
\* book.json: sample documents, whose owner the file names
BookFile(owner) ==
    <<NewBook(BookForm(Emma, <<"a">>, Int_(2), Int_(9), "Horror", "None", owner),
              owner, "d0", "https://t")>>

BookFiles == {BookFile(AdminName), BookFile(Bob), <<>>}

\* a submitted update_user form
UserForm(active, mail, first, last, pw, conf) ==
    [active |-> active, email |-> mail, first_name |-> first,
     last_name |-> last, password |-> pw, password_conf |-> conf]

\* the dashboard's form as rendered for account u (every field holds the
\* stored value), with the "active" box ticked or not
Prefilled(u, active) ==
    UserForm(active, u.email, u.first_name, u.last_name, u.password, u.password)

\* a form with a new profile and a new password
ChangedForm(active) == UserForm(active, <<"e", "1">>, <<"n">>, <<"n">>, "pw1", "pw1")

\* the forms sent for account u: the rendered one with the "active" box
\* not ticked and one with a new profile and password; for the bootstrap
\* account's name also one whose passwords differ and one without a password
UserForms(u) ==
    {Prefilled(u, "None"), ChangedForm("on")}
      \cup (IF u.username = AdminName
            THEN {UserForm("None", u.email, u.first_name, u.last_name, "pw1", "pw0"),
                  UserForm("None", u.email, u.first_name, u.last_name, "None", "None")}
            ELSE {})

Pages == 0..MaxPage

(***************************************************************************)
(* Sessions, requests in progress and responses.                           *)
(***************************************************************************)
Sessions == DOMAIN sessions

\* current_user.username of a session, NoUser when anonymous
CurrentUser(s) ==
    IF sessions[s].user \in UserIds THEN UserById(sessions[s].user).username
    ELSE NoUser

\* current_user.is_authenticated
Authenticated(s) == sessions[s].user \in UserIds

\* @roles_required("Admin")
IsAdmin(s) == Authenticated(s) /\ HasRole(UserById(sessions[s].user), "Admin")

NewSession == [user |-> NoId, fields |-> <<>>]

\* no request in progress
Idle ==
    [op |-> "idle", step |-> "", user |-> NoUser, id |-> 0, name |-> NoUser,
     page |-> 0, form |-> <<>>, doc |-> <<>>]

Busy(s) == calls[s].op # "idle"

\* the request of session s stands before the step of handler op
At(s, op, step) == calls[s].op = op /\ calls[s].step = step

\* the locals of a request whose user is loaded; current_user is loaded
\* once per request, by the decorator or by the handler's first use of it
Call(op, step, s) == [Idle EXCEPT !.op = op, !.step = step, !.user = CurrentUser(s)]

\* what the last step was and what it answered
Response(op, s) ==
    [op |-> op, session |-> s, user |-> CurrentUser(s), status |-> "ok",
     book |-> 0, target |-> NoUser, form |-> <<>>, lookup |-> "",
     persist |-> "", store |-> "", page |-> 0, page_prev |-> 0, page_next |-> 0,
     items |-> <<>>]

\* the response of the request in progress, as far as its locals fix it
Answer(s) ==
    [Response(calls[s].op, s) EXCEPT
        !.user = calls[s].user, !.book = calls[s].id, !.target = calls[s].name,
        !.page = calls[s].page, !.form = calls[s].form]

\* @login_required / @roles_required: the request is redirected, nothing changes
Denied(op, s) ==
    /\ resp' = [Response(op, s) EXCEPT !.status = "denied"]
    /\ UNCHANGED <<users, books, genres, sessions, calls>>

\* the request goes on to its next step with the locals c
Wait(s, c) ==
    /\ calls' = [calls EXCEPT ![s] = c]
    /\ resp' = [Response(c.op, s) EXCEPT
                   !.status = "wait", !.user = c.user, !.target = c.name]

\* the request ends with the response r
Done(s, r) ==
    /\ calls' = [calls EXCEPT ![s] = Idle]
    /\ resp' = r

\* @login_required, or @roles_required("Admin") when admin: the session's
\* user is loaded from the store; the request is redirected, or goes on to
\* the handler's body with the locals c
Begin(s, c, admin) ==
    /\ ~Busy(s)
    /\ IF ~Authenticated(s) \/ (admin /\ ~IsAdmin(s)) THEN Denied(c.op, s)
       ELSE Wait(s, c)
    /\ UNCHANGED <<users, books, genres, sessions>>

\* the sessions of deleted accounts no longer load a user
DropSessions(gone) ==
    [x \in Sessions |->
        IF sessions[x].user \in gone THEN [sessions[x] EXCEPT !.user = NoId]
        ELSE sessions[x]]

\* the ids by which a request in progress names a document
HeldBookIds ==
    {calls[s].id : s \in {x \in Sessions :
        calls[x].op \in {"edit_book", "update_book", "delete_book"}}}

\* the ids no stored document has and no request in progress holds
FreeBookIds ==
    {i \in 1..(MaxBooks + Cardinality(Sessions)) : i \notin BookIds \cup HeldBookIds}

\* the id of the k-th document of an insert
NthFreeId(k) == CHOOSE i \in FreeBookIds : Cardinality({j \in FreeBookIds : j < i}) = k - 1

\* the id of the next inserted document
FreshId == NthFreeId(1)

\* the id of the next saved account with the username: one that no stored
\* account has and by which no request in progress names an account
FreshUserId(name) ==
    LET held == {calls[s].id : s \in {x \in Sessions :
                    calls[x].op \in {"update_user", "admin_delete_user"}}} \ {NoId}
        taken == {i[2] : i \in {j \in UserIds \cup held : j[1] = name}}
    IN  <<name, CHOOSE k \in 1..(Cardinality(taken) + 1) :
                    k \notin taken /\ \A j \in 1..(k - 1) : j \in taken>>

\* user.save() of a new document
Saved(u) == [u EXCEPT !.id = FreshUserId(u.username)]

\* the bounds of the model leave room for one more document, the requests
\* in progress that will insert one counted
BookRoom ==
    Cardinality(BookIds)
      + Cardinality({s \in Sessions : calls[s].op \in {"save_book", "load_books"}})
      < MaxBooks

UserRoom ==
    Cardinality(users) + Cardinality({s \in Sessions : At(s, "home_page", "save")})
      < MaxUsers

(***************************************************************************)
(* Flask-User's views, installed by UserManager(app, db, User).            *)
(***************************************************************************)
Register(s, name, pw, mail) ==
    /\ ~Busy(s)
    /\ ~Authenticated(s)
    /\ ~Exists(name)
    /\ UserRoom
    /\ users' = users \cup {Saved(NewUser(name, HashPassword(pw), mail))}
    /\ resp' = [Response("register", s) EXCEPT !.target = name]
    /\ UNCHANGED <<books, genres, sessions, calls>>

Login(s, name) ==
    /\ ~Busy(s)
    /\ ~Authenticated(s)
    /\ Exists(name)
    /\ UserNamed(name).active
    /\ sessions' = [sessions EXCEPT ![s].user = UserNamed(name).id]
    /\ resp' = [Response("login", s) EXCEPT !.target = name]
    /\ UNCHANGED <<users, books, genres, calls>>

Logout(s) ==
    /\ ~Busy(s)
    /\ Authenticated(s)
    /\ sessions' = [sessions EXCEPT ![s].user = NoId]
    /\ resp' = Response("logout", s)
    /\ UNCHANGED <<users, books, genres, calls>>

(***************************************************************************)
(* Seed files.                                                             *)
(***************************************************************************)
\* genre.json: the genre labels, in file order
GenreFile == <<"Fantasy", "Horror">>

\* reading a seed file and inserting its documents: env is "ok" or "nofile"
\* (FileNotFoundError, then the unbound list raises inside the second try,
\* as a failing bulk insert would); a failure inserts nothing
Loaded(collection, file, env) ==
    IF env = "ok" /\ file # <<>> THEN collection \o file ELSE collection

\* a loader that does not test the collection
GenresMissingAlways(collection) == TRUE

\* `if not Genre.objects():` guards the load
GenresMissing(collection) == collection = <<>>

\* the notice of a loader after its insert
LoadStatus(file, env) == IF env = "ok" /\ file # <<>> THEN "success" ELSE "danger"

(***************************************************************************)
(* home_page                                                               *)
(***************************************************************************)
\* the bootstrap account built by home_page
AdminUser ==
    [NewUser(AdminName, HashPassword("adminpw"), <<"e">>) EXCEPT
        !.first_name = <<"a">>, !.last_name = <<"a">>,
        !.roles = <<"user", "Admin">>]

\* `not User.objects.filter(User.username == "admin")`: the comparison of a
\* field object with a string is False, filter(False) adds no condition, so
\* the queryset is the whole collection and the test is "no account at all"
NoAdminFound(us) == us = {}

\* the redirect of a signed-in visitor, else the test for the account
HomePageUsers(s) ==
    /\ ~Busy(s)
    /\ IF Authenticated(s)
       THEN /\ resp' = [Response("home_page", s) EXCEPT !.status = "redirect"]
            /\ UNCHANGED calls
       ELSE Wait(s, Call("home_page",
                         IF NoAdminFound(users) THEN "save" ELSE "genres", s))
    /\ UNCHANGED <<users, books, genres, sessions>>

\* user.save() of the bootstrap account
HomePageSave ==
    \E s \in Sessions :
        /\ At(s, "home_page", "save")
        /\ users' = users \cup {Saved(AdminUser)}
        /\ Wait(s, [calls[s] EXCEPT !.step = "genres"])
        /\ UNCHANGED <<books, genres, sessions>>

\* `if not Genre.objects():`
HomePageGenres ==
    \E s \in Sessions :
        /\ At(s, "home_page", "genres")
        /\ IF GenresMissing(genres)
           THEN Wait(s, [calls[s] EXCEPT !.step = "insert"])
           ELSE Done(s, Answer(s))
        /\ UNCHANGED <<users, books, genres, sessions>>

\* reading genre.json and Genre.objects.insert
HomePageInsert ==
    \E s \in Sessions, env \in Envs :
        /\ At(s, "home_page", "insert")
        /\ genres' = Loaded(genres, GenreFile, env)
        /\ Done(s, [Answer(s) EXCEPT !.persist = env])
        /\ UNCHANGED <<users, books, sessions>>

\* a "previous" link that stops at the first page
PagePrevClamped(page) == IF page > 1 THEN page - 1 ELSE 1

\* page_prev=(page - 1) and page_next=(page + 1) of the three listings
PagePrev(page) == page - 1

PageNext(page) == page + 1

(***************************************************************************)
(* member_page                                                             *)
(***************************************************************************)
\* the paginated listing of the documents owned by the username that was
\* loaded with the request
MemberPage ==
    \E s \in Sessions :
        /\ At(s, "member_page", "list")
        /\ LET page == calls[s].page
               pg == Paginate(SortedByTitle(MemberBooks(calls[s].user)),
                              page, BooksPerPage)
           IN  Done(s, [Answer(s) EXCEPT
                           !.status = pg.status, !.items = pg.items,
                           !.page_prev = PagePrev(page), !.page_next = PageNext(page)])
        /\ UNCHANGED <<users, books, genres, sessions>>

(***************************************************************************)
(* save_book, edit_book, update_book, delete_book                          *)
(***************************************************************************)
Placeholder == "/static/images/BR_logo_no_thumbnail.png"

\* str.replace("http://", "https://") on the thumbnail links of the model
ToHttps(url) == IF url = "http://t" THEN "https://t" ELSE url

\* the lookup guarded by `except KeyError` alone: a missing thumbnail is
\* caught, a failed request leaves the handler
FetchThumbnailKeyErrorOnly(lookup) ==
    IF lookup = "error" THEN [raised |-> TRUE, thumb |-> ""]
    ELSE IF lookup = "nothumb" THEN [raised |-> FALSE, thumb |-> Placeholder]
    ELSE [raised |-> FALSE, thumb |-> ToHttps(lookup)]

\* the metadata lookup and its `except BaseException`: lookup is "error"
\* (the request raises or times out), "nothumb" (the answer has no
\* items/imageLinks/thumbnail) or the thumbnail link.  raised = the failure
\* leaves the handler.
FetchThumbnail(lookup) ==
    IF lookup \in {"error", "nothumb"}
    THEN [raised |-> FALSE, thumb |-> Placeholder]
    ELSE [raised |-> FALSE, thumb |-> ToHttps(lookup)]

\* save_book taking the owner from the submitted form
SaveBookOwnerFromForm(s, f) == f.user

\* user=current_user.username: the owner save_book gives a new document
SaveBookOwner(s, f) == CurrentUser(s)

\* book = Book(...): the document is built from the form and the
\* requester, then the handler waits for the metadata service
SaveBookBuild(s, f, now) ==
    /\ ~Busy(s)
    /\ IF ~Authenticated(s) THEN Denied("save_book", s)
       ELSE /\ Wait(s, [Call("save_book", "save", s) EXCEPT
                           !.form = <<f>>,
                           !.doc = <<NewBook(f, SaveBookOwner(s, f), now, "")>>])
            /\ UNCHANGED <<users, books, genres, sessions>>

\* the answer of requests.get gives the document its thumbnail, then
\* book.save() and its notice
SaveBookSave ==
    \E s \in Sessions, lookup \in Lookups, store \in Stores :
        /\ At(s, "save_book", "save")
        /\ LET got == FetchThumbnail(lookup)
               r == [Answer(s) EXCEPT !.lookup = lookup, !.store = store]
               book == [calls[s].doc[1] EXCEPT !.book_thumbnail = got.thumb]
               saved == store = "ok" /\ ValidBook(book)
           IN  IF got.raised
               THEN /\ books' = books
                    /\ Done(s, [r EXCEPT !.status = "500"])
               ELSE /\ books' = IF saved THEN (FreshId :> book) @@ books ELSE books
                    /\ Done(s, [r EXCEPT
                                   !.status = IF saved THEN "success" ELSE "danger",
                                   !.persist = got.thumb,
                                   !.book = IF saved THEN FreshId ELSE 0])
        /\ UNCHANGED <<users, genres, sessions>>

\* a fetch that finds the requester's own documents alone
FindBookOfRequester(s, id) == id \in BookIds /\ books[id].user = calls[s].user

\* Book.objects.get(id=book_id): the document is looked up by its id and
\* nothing else; FALSE when the lookup raises DoesNotExist
FindBook(s, id) == id \in BookIds

\* edit_book: Book.objects.get(id=book_id) and the form's template; a
\* missing document raises DoesNotExist, which nothing catches
EditBook ==
    \E s \in Sessions :
        /\ At(s, "edit_book", "get")
        /\ Done(s, [Answer(s) EXCEPT
                       !.status = IF FindBook(s, calls[s].id) THEN "ok" ELSE "500"])
        /\ UNCHANGED <<users, books, genres, sessions>>

\* IntField.prepare_query_value: int(value) unless the value is None
UpdateAccepts(f) == ValidInt(f.year) /\ ValidInt(f.isbn) /\ ValidInt(f.rating)

\* an update that also takes the owner from the submitted form
UpdatedBookWithOwner(b, f, thumb) ==
    [b EXCEPT !.title = f.title, !.author = f.author, !.year = f.year,
              !.ISBN = f.isbn, !.short_description = f.short_description,
              !.comments = f.comments, !.rating = f.rating, !.genre = f.genre,
              !.private_view = IF f.private_view # "on" THEN "off" ELSE "on",
              !.book_thumbnail = thumb, !.user = f.user]

\* book.update(**fields): the nine form fields and the thumbnail are set
\* as given (None is stored as null), nothing else is written
UpdatedBook(b, f, thumb) ==
    [b EXCEPT !.title = f.title, !.author = f.author, !.year = f.year,
              !.ISBN = f.isbn, !.short_description = f.short_description,
              !.comments = f.comments, !.rating = f.rating, !.genre = f.genre,
              !.private_view = IF f.private_view # "on" THEN "off" ELSE "on",
              !.book_thumbnail = thumb]

\* Book.objects.get(id=book_id) and the fields read from the form, then
\* the handler waits for the metadata service
UpdateBookGet ==
    \E s \in Sessions :
        /\ At(s, "update_book", "get")
        /\ IF ~FindBook(s, calls[s].id)
           THEN Done(s, [Answer(s) EXCEPT !.status = "500"])
           ELSE Wait(s, [calls[s] EXCEPT !.step = "update"])
        /\ UNCHANGED <<users, books, genres, sessions>>

\* the answer of requests.get adds the thumbnail to the fields, then
\* book.update(**fields) writes to the document with the fetched id, to
\* nothing when that document is gone, and its notice
UpdateBookUpdate ==
    \E s \in Sessions, lookup \in Lookups, store \in Stores :
        /\ At(s, "update_book", "update")
        /\ LET got == FetchThumbnail(lookup)
               r == [Answer(s) EXCEPT !.lookup = lookup, !.store = store]
               id == calls[s].id
               f == calls[s].form[1]
               updated == store = "ok" /\ UpdateAccepts(f)
           IN  IF got.raised
               THEN /\ books' = books
                    /\ Done(s, [r EXCEPT !.status = "500"])
               ELSE /\ books' = IF updated /\ id \in BookIds
                                THEN [books EXCEPT ![id] = UpdatedBook(@, f, got.thumb)]
                                ELSE books
                    /\ Done(s, [r EXCEPT
                                   !.status = IF updated THEN "success" ELSE "danger",
                                   !.persist = got.thumb])
        /\ UNCHANGED <<users, genres, sessions>>

\* a collection without the documents in gone
Without(gone) == [i \in BookIds \ gone |-> books[i]]

\* Book.objects.get(id=book_id)
DeleteBookGet ==
    \E s \in Sessions :
        /\ At(s, "delete_book", "get")
        /\ IF ~FindBook(s, calls[s].id)
           THEN Done(s, [Answer(s) EXCEPT !.status = "500"])
           ELSE Wait(s, [calls[s] EXCEPT !.step = "delete"])
        /\ UNCHANGED <<users, books, genres, sessions>>

\* book.delete() removes the document with the fetched id, nothing when it
\* is gone, and its notice
DeleteBookDelete ==
    \E s \in Sessions, store \in Stores :
        /\ At(s, "delete_book", "delete")
        /\ books' = IF store = "ok" THEN Without({calls[s].id}) ELSE books
        /\ Done(s, [Answer(s) EXCEPT
                       !.status = IF store = "ok" THEN "success" ELSE "danger",
                       !.store = store])
        /\ UNCHANGED <<users, genres, sessions>>

(***************************************************************************)
(* save_search, search_results                                             *)
(***************************************************************************)
\* the criteria kept in one place for every session
StoreFieldsShared(s, crit) ==
    [x \in Sessions |-> [sessions[x] EXCEPT !.fields = <<crit>>]]

\* session["fields"] = fields: the request's own session takes the
\* submitted criteria in place of what it held
StoreFields(s, crit) == [sessions EXCEPT ![s].fields = <<crit>>]

SaveSearch(s, crit) ==
    /\ ~Busy(s)
    /\ IF ~Authenticated(s) THEN Denied("save_search", s)
       ELSE /\ sessions' = StoreFields(s, crit)
            /\ resp' = [Response("save_search", s) EXCEPT !.form = <<crit>>]
            /\ UNCHANGED <<users, books, genres, calls>>

\* the query on the criteria the request's session holds, for the username
\* that was loaded with the request: fields["title"] raises without stored
\* criteria; paginate answers 404 below page 1 before the query is
\* evaluated; else the query runs
SearchResults ==
    \E s \in Sessions :
        /\ At(s, "search_results", "query")
        /\ LET stored == sessions[s].fields
               page == calls[s].page
               r == [Answer(s) EXCEPT !.form = stored]
           IN  Done(s,
                  IF stored = <<>> THEN [r EXCEPT !.status = "500"]
                  ELSE IF page < 1 THEN [r EXCEPT !.status = "404"]
                  ELSE IF QueryRaises(stored[1]) THEN [r EXCEPT !.status = "500"]
                  ELSE LET pg == Paginate(SearchSeq(stored[1], calls[s].user),
                                          page, BooksPerPage)
                       IN  [r EXCEPT !.status = pg.status, !.items = pg.items,
                                     !.page_prev = PagePrev(page),
                                     !.page_next = PageNext(page)])
        /\ UNCHANGED <<users, books, genres, sessions>>

(***************************************************************************)
(* delete_user                                                             *)
(***************************************************************************)
OwnedBy(name) == {i \in BookIds : books[i].user = name}

\* the two querysets are built from the requester's username, then
\* logout_user() signs the session out
DeleteUserLogout ==
    \E s \in Sessions :
        /\ ~Busy(s)
        /\ IF ~Authenticated(s) THEN Denied("delete_user", s)
           ELSE /\ sessions' = [sessions EXCEPT ![s].user = NoId]
                /\ Wait(s, [Call("delete_user", "books", s) EXCEPT
                               !.name = CurrentUser(s)])
                /\ UNCHANGED <<users, books, genres>>

\* find_user_books.delete(); when it raises, the except branch reads
\* find_user.username, which a queryset does not have, and the request
\* ends as an error
DeleteUserBooks ==
    \E s \in Sessions, store \in Stores :
        /\ At(s, "delete_user", "books")
        /\ IF store = "ok"
           THEN /\ books' = Without(OwnedBy(calls[s].name))
                /\ Wait(s, [calls[s] EXCEPT !.step = "account"])
           ELSE /\ books' = books
                /\ Done(s, [Answer(s) EXCEPT !.status = "500", !.store = store])
        /\ UNCHANGED <<users, genres, sessions>>

\* find_user.delete(): every account with the requester's username
DeleteUserAccount ==
    \E s \in Sessions, store \in Stores :
        /\ At(s, "delete_user", "account")
        /\ LET gone == {u \in users : u.username = calls[s].name}
           IN  IF store = "ok"
               THEN /\ users' = users \ gone
                    /\ sessions' = DropSessions({u.id : u \in gone})
                    /\ Done(s, [Answer(s) EXCEPT !.status = "success", !.store = store])
               ELSE /\ UNCHANGED <<users, sessions>>
                    /\ Done(s, [Answer(s) EXCEPT !.status = "500", !.store = store])
        /\ UNCHANGED <<books, genres>>

(***************************************************************************)
(* admin_dashboard, update_user, admin_delete_user                         *)
(***************************************************************************)
\* the paginated listing of the accounts
AdminDashboard ==
    \E s \in Sessions :
        /\ At(s, "admin_dashboard", "list")
        /\ LET page == calls[s].page
               pg == Paginate(SortedByUsername(UserIds), page, UsersPerPage)
           IN  Done(s, [Answer(s) EXCEPT
                           !.status = pg.status, !.items = pg.items,
                           !.page_prev = PagePrev(page), !.page_next = PageNext(page)])
        /\ UNCHANGED <<users, books, genres, sessions>>

\* update_user without its check of the account's name
UpdateUserActiveUnguarded(name, active) == active = "on"

\* the "active" value update_user writes: True for the account named
\* "admin", else whether the form sent "on"
UpdateUserActive(name, active) ==
    IF name = AdminName THEN TRUE
    ELSE IF active = "on" THEN TRUE
    ELSE FALSE

\* the password update_user writes: the hash it read when the form sent
\* that back unchanged, else the hash of what the form sent
UpdateUserPassword(u, pw) ==
    IF pw = u.password /\ StartsWith2b(pw) THEN pw ELSE HashPassword(pw)

\* admin_user_form, computed from the form and the account as it was read
AdminUserForm(u, f) ==
    [active |-> UpdateUserActive(u.username, f.active), email |-> f.email,
     first_name |-> f.first_name, last_name |-> f.last_name,
     password |-> UpdateUserPassword(u, f.password)]

\* user.update(**admin_user_form): five fields, None stored as null
UpdatedUser(u, w) ==
    [u EXCEPT !.active = w.active, !.email = w.email,
              !.first_name = w.first_name, !.last_name = w.last_name,
              !.password = w.password]

\* User.objects.get(id=user_id), the form, the comparison of the passwords
UpdateUserGet ==
    \E s \in Sessions :
        /\ At(s, "update_user", "get")
        /\ IF calls[s].id \notin UserIds
           THEN Done(s, [Answer(s) EXCEPT !.status = "500"])
           ELSE LET u == UserById(calls[s].id)
                    f == calls[s].form[1]
                    r == [Answer(s) EXCEPT !.target = u.username]
                IN  IF f.password # f.password_conf
                    THEN Done(s, [r EXCEPT !.status = "danger"])
                    ELSE IF f.password = "None"
                    THEN \* hash_password(None) raises
                         Done(s, [r EXCEPT !.status = "500"])
                    ELSE Wait(s, [calls[s] EXCEPT
                                     !.step = "update", !.name = u.username,
                                     !.doc = <<AdminUserForm(u, f)>>])
        /\ UNCHANGED <<users, books, genres, sessions>>

\* user.update(**admin_user_form) writes to the account with the fetched
\* id, to nothing when that account is gone
UpdateUserUpdate ==
    \E s \in Sessions :
        /\ At(s, "update_user", "update")
        /\ users' = IF calls[s].id \in UserIds
                    THEN (users \ {UserById(calls[s].id)})
                            \cup {UpdatedUser(UserById(calls[s].id), calls[s].doc[1])}
                    ELSE users
        /\ Done(s, [Answer(s) EXCEPT !.status = "success"])
        /\ UNCHANGED <<books, genres, sessions>>

\* User.objects.get(id=user_id) and `if user.username != "admin"`
AdminDeleteUserGet ==
    \E s \in Sessions :
        /\ At(s, "admin_delete_user", "get")
        /\ IF calls[s].id \notin UserIds
           THEN Done(s, [Answer(s) EXCEPT !.status = "500"])
           ELSE IF UserById(calls[s].id).username = AdminName
           THEN Done(s, [Answer(s) EXCEPT !.status = "redirect", !.target = AdminName])
           ELSE Wait(s, [calls[s] EXCEPT
                            !.step = "books", !.name = UserById(calls[s].id).username])
        /\ UNCHANGED <<users, books, genres, sessions>>

\* user_books.delete(): the documents whose owner is the fetched username
AdminDeleteUserBooks ==
    \E s \in Sessions, store \in Stores :
        /\ At(s, "admin_delete_user", "books")
        /\ IF store = "ok"
           THEN /\ books' = Without(OwnedBy(calls[s].name))
                /\ Wait(s, [calls[s] EXCEPT !.step = "account"])
           ELSE /\ books' = books
                /\ Done(s, [Answer(s) EXCEPT !.status = "danger", !.store = store])
        /\ UNCHANGED <<users, genres, sessions>>

\* user.delete(): the account with the fetched id
AdminDeleteUserAccount ==
    \E s \in Sessions, store \in Stores :
        /\ At(s, "admin_delete_user", "account")
        /\ IF store = "ok"
           THEN /\ users' = {u \in users : u.id # calls[s].id}
                /\ sessions' = DropSessions({calls[s].id})
                /\ Done(s, [Answer(s) EXCEPT !.status = "success", !.store = store])
           ELSE /\ UNCHANGED <<users, sessions>>
                /\ Done(s, [Answer(s) EXCEPT !.status = "danger", !.store = store])
        /\ UNCHANGED <<books, genres>>

(***************************************************************************)
(* load_genres, load_books                                                 *)
(***************************************************************************)
\* `if not Genre.objects():`, else the notice that the collection exists
LoadGenresTest ==
    \E s \in Sessions :
        /\ At(s, "load_genres", "test")
        /\ IF GenresMissing(genres)
           THEN Wait(s, [calls[s] EXCEPT !.step = "insert"])
           ELSE Done(s, [Answer(s) EXCEPT !.status = "info"])
        /\ UNCHANGED <<users, books, genres, sessions>>

\* reading genre.json and Genre.objects.insert
LoadGenresInsert ==
    \E s \in Sessions, env \in Envs :
        /\ At(s, "load_genres", "insert")
        /\ genres' = Loaded(genres, GenreFile, env)
        /\ Done(s, [Answer(s) EXCEPT
                       !.persist = env, !.status = LoadStatus(GenreFile, env)])
        /\ UNCHANGED <<users, books, sessions>>

\* Book.objects.insert(book_instances): the documents as the file gives
\* them, owner included, each under a new id
Inserted(collection, docs) ==
    [i \in DOMAIN collection \cup {NthFreeId(k) : k \in 1..Len(docs)} |->
        IF i \in DOMAIN collection THEN collection[i]
        ELSE docs[CHOOSE k \in 1..Len(docs) : NthFreeId(k) = i]]

\* `if not Book.objects():`, else the notice that the collection exists
LoadBooksTest ==
    \E s \in Sessions :
        /\ At(s, "load_books", "test")
        /\ IF BookIds = {}
           THEN Wait(s, [calls[s] EXCEPT !.step = "insert"])
           ELSE Done(s, [Answer(s) EXCEPT !.status = "info"])
        /\ UNCHANGED <<users, books, genres, sessions>>

\* reading book.json and Book.objects.insert
LoadBooksInsert ==
    \E s \in Sessions, file \in BookFiles, env \in Envs :
        /\ At(s, "load_books", "insert")
        /\ books' = IF env = "ok" THEN Inserted(books, file) ELSE books
        /\ Done(s, [Answer(s) EXCEPT
                       !.persist = env, !.form = file,
                       !.status = LoadStatus(file, env)])
        /\ UNCHANGED <<users, genres, sessions>>

(***************************************************************************)
(* The accounts, from an empty database, in two browser sessions:          *)
(* registration, the bootstrap account, the dashboard's form and both ways *)
(* of deleting an account.                                                 *)
(***************************************************************************)
Init ==
    /\ users = {}
    /\ books = [i \in {} |-> 0]
    /\ genres = <<>>
    /\ sessions = [s \in {"s1", "s2"} |-> NewSession]
    /\ calls = [s \in {"s1", "s2"} |-> Idle]
    /\ resp = Response("start", "s1")

RegisterReq == \E s \in Sessions, n \in {AdminName, Ann} : Register(s, n, "pw0", <<"e">>)

LoginReq == \E s \in Sessions, n \in {AdminName, Ann, Bob} : Login(s, n)

LogoutReq == \E s \in Sessions : Logout(s)

HomePageReq == \E s \in Sessions : HomePageUsers(s)

\* the forms of the dashboard for every account, and an id that no
\* account has
UpdateUserReq ==
    \E s \in Sessions :
        \/ \E u \in users : \E f \in UserForms(u) :
              Begin(s, [Call("update_user", "get", s) EXCEPT
                           !.id = u.id, !.form = <<f>>], TRUE)
        \/ Begin(s, [Call("update_user", "get", s) EXCEPT
                         !.id = NoId, !.form = <<ChangedForm("on")>>], TRUE)

AdminDeleteUserReq ==
    \E s \in Sessions, i \in UserIds \cup {NoId} :
        Begin(s, [Call("admin_delete_user", "get", s) EXCEPT !.id = i], TRUE)

Next ==
    \/ RegisterReq
    \/ LoginReq
    \/ LogoutReq
    \/ HomePageReq
    \/ HomePageSave
    \/ HomePageGenres
    \/ HomePageInsert
    \/ DeleteUserLogout
    \/ DeleteUserBooks
    \/ DeleteUserAccount
    \/ AdminDeleteUserReq
    \/ AdminDeleteUserGet
    \/ AdminDeleteUserBooks
    \/ AdminDeleteUserAccount

Spec == Init /\ [][Next]_vars

(***************************************************************************)
(* The dashboard's form: registration, the bootstrap account, update_user  *)
(* and admin_delete_user in two browser sessions that stay signed in, the  *)
(* genres seeded.                                                          *)
(***************************************************************************)
InitAccounts ==
    /\ users = {}
    /\ books = [i \in {} |-> 0]
    /\ genres = GenreFile
    /\ sessions = [s \in {"s1", "s2"} |-> NewSession]
    /\ calls = [s \in {"s1", "s2"} |-> Idle]
    /\ resp = Response("start", "s1")

NextAccounts ==
    \/ RegisterReq
    \/ LoginReq
    \/ HomePageReq
    \/ HomePageSave
    \/ HomePageGenres
    \/ UpdateUserReq
    \/ UpdateUserGet
    \/ UpdateUserUpdate
    \/ AdminDeleteUserReq
    \/ AdminDeleteUserGet
    \/ AdminDeleteUserBooks
    \/ AdminDeleteUserAccount

SpecAccounts == InitAccounts /\ [][NextAccounts]_vars

\* a document as the store holds it, the k-th saved with its username
Stored(u, k) == [u EXCEPT !.id = <<u.username, k>>]

\* an account as registration leaves it
Member(name) == NewUser(name, HashPassword("pw0"), <<"e">>)

(***************************************************************************)
(* Seeding: the bootstrap account signed in or not in two browser          *)
(* sessions, both collections empty at first.                              *)
(***************************************************************************)
InitSeeding ==
    /\ users = {Stored(AdminUser, 1)}
    /\ books = [i \in {} |-> 0]
    /\ genres = <<>>
    /\ sessions = [s \in {"s1", "s2"} |-> NewSession]
    /\ calls = [s \in {"s1", "s2"} |-> Idle]
    /\ resp = Response("start", "s1")

DeleteBookReq ==
    \E s \in Sessions, i \in BookIds \cup {0} :
        Begin(s, [Call("delete_book", "get", s) EXCEPT !.id = i], FALSE)

LoadGenresReq == \E s \in Sessions : Begin(s, Call("load_genres", "test", s), TRUE)

LoadBooksReq ==
    \E s \in Sessions : BookRoom /\ Begin(s, Call("load_books", "test", s), TRUE)

NextSeeding ==
    \/ LoginReq
    \/ LogoutReq
    \/ HomePageReq
    \/ HomePageGenres
    \/ HomePageInsert
    \/ LoadGenresReq
    \/ LoadGenresTest
    \/ LoadGenresInsert
    \/ LoadBooksReq
    \/ LoadBooksTest
    \/ LoadBooksInsert
    \/ DeleteBookReq
    \/ DeleteBookGet
    \/ DeleteBookDelete

SpecSeeding == InitSeeding /\ [][NextSeeding]_vars

(***************************************************************************)
(* Deleting accounts while their owners save documents: the bootstrap      *)
(* account and a member in two browser sessions.                           *)
(***************************************************************************)
InitCascade ==
    /\ users = {Stored(AdminUser, 1), Stored(Member(Ann), 1)}
    /\ books = [i \in {} |-> 0]
    /\ genres = GenreFile
    /\ sessions = [s \in {"s1", "s2"} |-> NewSession]
    /\ calls = [s \in {"s1", "s2"} |-> Idle]
    /\ resp = Response("start", "s1")

SaveBookReq ==
    \E s \in Sessions, f \in {DuneForm, BadForm} : BookRoom /\ SaveBookBuild(s, f, "d1")

NextCascade ==
    \/ LoginReq
    \/ LogoutReq
    \/ SaveBookReq
    \/ SaveBookSave
    \/ DeleteUserLogout
    \/ DeleteUserBooks
    \/ DeleteUserAccount
    \/ AdminDeleteUserReq
    \/ AdminDeleteUserGet
    \/ AdminDeleteUserBooks
    \/ AdminDeleteUserAccount

SpecCascade == InitCascade /\ [][NextCascade]_vars

(***************************************************************************)
(* The catalog of two members, each signed in in a browser session: forms  *)
(* the store takes and rejects, every lookup answer and store outcome.     *)
(***************************************************************************)
InitCatalog ==
    /\ users = {Stored(Member(Ann), 1), Stored(Member(Bob), 1)}
    /\ books = [i \in {} |-> 0]
    /\ genres = GenreFile
    /\ sessions = [s \in {"s1", "s2"} |-> [NewSession EXCEPT !.user = IF s = "s1" THEN <<Ann, 1>> ELSE <<Bob, 1>>]]
    /\ calls = [s \in {"s1", "s2"} |-> Idle]
    /\ resp = Response("start", "s1")

CatalogEditBook ==
    \E s \in Sessions, i \in BookIds :
        Begin(s, [Call("edit_book", "get", s) EXCEPT !.id = i], FALSE)

CatalogUpdateBook ==
    \E s \in Sessions, i \in BookIds, f \in {EmmaForm, BadForm} :
        Begin(s, [Call("update_book", "get", s) EXCEPT !.id = i, !.form = <<f>>], FALSE)

NextCatalog ==
    \/ SaveBookReq
    \/ SaveBookSave
    \/ CatalogEditBook
    \/ EditBook
    \/ CatalogUpdateBook
    \/ UpdateBookGet
    \/ UpdateBookUpdate
    \/ DeleteBookReq
    \/ DeleteBookGet
    \/ DeleteBookDelete

SpecCatalog == InitCatalog /\ [][NextCatalog]_vars
(***************************************************************************)
(* Search: every catalog of up to MaxShelf documents that two members can  *)
(* have saved, searched by either member with every criteria form.         *)
(***************************************************************************)
\* a form whose isbn is 0, without a rating, with an unusual checkbox value
ZeroForm == BookForm(<<"d", "u", "n", "e">>, <<"a">>, Int_(0), NoInt, "None", "yes", Ann)

\* the documents save_book stores for the two members
ShelfBooks ==
    {NewBook(f, o, "d1", Placeholder) : f \in {DuneForm, EmmaForm, ZeroForm},
                                        o \in {Ann, Bob}}

Shelves == UNION {[1..n -> ShelfBooks] : n \in 0..MaxShelf}

\* a submitted search form: the fields the form lacks read as None
SearchForm(title, author, isbn, rating, genre, private_view) ==
    [title |-> title, author |-> author, year |-> NoInt, ISBN |-> isbn,
     short_description |-> None, comments |-> None, rating |-> rating,
     genre |-> genre, private_view |-> private_view]

SearchForms ==
    {SearchForm(t, <<>>, i, NoInt, g, pv) :
        t \in {<<>>, <<"E", "m">>}, i \in {NoInt, BadInt, Int_(0), Int_(1)},
        g \in {"None", "Horror"}, pv \in {"on", "None"}}
    \cup {SearchForm(<<>>, <<"a">>, NoInt, Int_(6), "None", "None"),
          SearchForm(<<"d", "u">>, <<>>, NoInt, BadInt, "", "on"),
          SearchForm(None, <<>>, NoInt, NoInt, "None", "None"),
          SearchForm(None, None, Int_(2), Int_(6), "Fantasy", "off")}

InitSearch ==
    /\ users = {Stored(Member(Ann), 1), Stored(Member(Bob), 1)}
    /\ books \in Shelves
    /\ genres = GenreFile
    /\ sessions = [s \in {"s1"} |-> NewSession]
    /\ calls = [s \in {"s1"} |-> Idle]
    /\ resp = Response("start", "s1")

SearchSave == \E s \in Sessions, crit \in SearchForms : SaveSearch(s, crit)

SearchResultsReq ==
    \E s \in Sessions, p \in Pages :
        Begin(s, [Call("search_results", "query", s) EXCEPT !.page = p], FALSE)

NextSearch ==
    \/ LoginReq
    \/ LogoutReq
    \/ SearchSave
    \/ SearchResultsReq
    \/ SearchResults

SpecSearch == InitSearch /\ [][NextSearch]_vars

(***************************************************************************)
(* Paging: catalogs and account directories longer than one page.          *)
(***************************************************************************)
\* the k-th further member's username
MemberName(k) == <<"m", Alphabet[k]>>

\* n documents saved by one member
Catalog(n) == [i \in 1..n |-> NewBook(DuneForm, Ann, "d1", Placeholder)]

\* the bootstrap account, one member and m further members
Directory(m) ==
    {Stored(AdminUser, 1), Stored(Member(Ann), 1)}
        \cup {Stored(Member(MemberName(k)), 1) : k \in 1..m}

PagingForms ==
    {SearchForm(<<>>, <<>>, NoInt, NoInt, "None", "None"),
     SearchForm(<<>>, <<>>, Int_(1), NoInt, "None", "on")}

\* an empty collection, one that fills its last page, one that runs over
InitPaging ==
    /\ \E m \in {0, MaxMembers - 2, MaxMembers} : users = Directory(m)
    /\ \E n \in {0, MaxCatalog - 1, MaxCatalog} : books = Catalog(n)
    /\ genres = GenreFile
    /\ sessions = [s \in {"s1"} |-> NewSession]
    /\ calls = [s \in {"s1"} |-> Idle]
    /\ resp = Response("start", "s1")

PagingSaveSearch == \E s \in Sessions, crit \in PagingForms : SaveSearch(s, crit)

PagingMemberPage ==
    \E s \in Sessions, p \in Pages :
        Begin(s, [Call("member_page", "list", s) EXCEPT !.page = p], FALSE)

PagingDashboard ==
    \E s \in Sessions, p \in Pages :
        Begin(s, [Call("admin_dashboard", "list", s) EXCEPT !.page = p], TRUE)

NextPaging ==
    \/ LoginReq
    \/ LogoutReq
    \/ PagingSaveSearch
    \/ PagingMemberPage
    \/ MemberPage
    \/ SearchResultsReq
    \/ SearchResults
    \/ PagingDashboard
    \/ AdminDashboard

SpecPaging == InitPaging /\ [][NextPaging]_vars

(***************************************************************************)
(* Two browser sessions searching a catalog that changes meanwhile.        *)
(***************************************************************************)
\* a public document of one member and a private one of the other
TwoBooks ==
    <<NewBook(DuneForm, Ann, "d1", Placeholder),
      NewBook(EmmaForm, Bob, "d1", Placeholder)>>

\* the criteria submitted: the requester's own documents, the public
\* documents, and an identifier number
SessionForms ==
    {SearchForm(<<>>, <<>>, NoInt, NoInt, "None", "on"),
     SearchForm(<<>>, <<>>, NoInt, NoInt, "None", "None"),
     SearchForm(<<"E", "m">>, <<>>, Int_(1), NoInt, "Horror", "None")}

InitSessions ==
    /\ users = {Stored(Member(Ann), 1), Stored(Member(Bob), 1)}
    /\ books = TwoBooks
    /\ genres = GenreFile
    /\ sessions = [s \in {"s1", "s2"} |-> NewSession]
    /\ calls = [s \in {"s1", "s2"} |-> Idle]
    /\ resp = Response("start", "s1")

SessionsSaveSearch == \E s \in Sessions, crit \in SessionForms : SaveSearch(s, crit)

NextSessions ==
    \/ LoginReq
    \/ LogoutReq
    \/ SessionsSaveSearch
    \/ SearchResultsReq
    \/ SearchResults
    \/ DeleteBookReq
    \/ DeleteBookGet
    \/ DeleteBookDelete
    \/ DeleteUserLogout
    \/ DeleteUserBooks
    \/ DeleteUserAccount

SpecSessions == InitSessions /\ [][NextSessions]_vars

(***************************************************************************)
(* Properties.  resp is the response of the last step: "wait" when the     *)
(* request goes on, so resp' tells which request a step belongs to.        *)
(***************************************************************************)
\* the step of its handler that the request answered by r stood before
Step(r) == calls[r.session].step

\* C2: once delete_user or admin_delete_user has answered that the account
\* is deleted, no stored document names that account as owner.
C2_DeletedAccountLeavesNoRecords ==
    (resp.op \in {"delete_user", "admin_delete_user"} /\ resp.status = "success") =>
        \A i \in BookIds : books[i].user # resp.target

\* C5: a loader request that tests its collection non-empty ends with the
\* notice that the collection exists and changes nothing; after a loader
\* request has answered success its collection is non-empty, so the same
\* request sent again is such a request; an insert that fails leaves the
\* collection as it was; neither loader touches the other collection.
C5_SeedingIdempotent ==
    [][/\ (resp.op = "load_genres" /\ resp.status \in {"success", "info"}) =>
             genres # <<>>
       /\ (resp.op = "load_books" /\ resp.status \in {"success", "info"}) =>
             BookIds # {}
       /\ (resp'.op = "load_genres" /\ resp'.status # "denied") =>
             /\ books' = books /\ users' = users
             /\ (Step(resp') = "test" /\ genres # <<>>) =>
                   /\ genres' = genres
                   /\ resp'.status = "info"
                   /\ calls'[resp'.session] = Idle
             /\ resp'.status \in {"wait", "danger"} => genres' = genres
       /\ (resp'.op = "load_books" /\ resp'.status # "denied") =>
             /\ genres' = genres /\ users' = users
             /\ (Step(resp') = "test" /\ BookIds # {}) =>
                   /\ books' = books
                   /\ resp'.status = "info"
                   /\ calls'[resp'.session] = Idle
             /\ resp'.status \in {"wait", "danger"} => books' = books]_vars

\* the genre loader was asked again with the collection already loaded
C5_Witness ==
    /\ resp.op = "load_genres"
    /\ resp.status = "info"
    /\ genres = GenreFile

\* C6: after a home_page request of an unauthenticated visitor an account
\* named "admin" with the "Admin" role exists.
C6_AdminExistsAfterHomePage ==
    (resp.op = "home_page" /\ resp.status = "ok") =>
        \E u \in users : u.username = AdminName /\ HasRole(u, "Admin")

\* C7: every stored document's owner is the username of an existing account.
C7_EveryRecordOwnedByAnAccount ==
    \A i \in BookIds : Exists(books[i].user)

\* C10: the account named "admin" is active in every reachable state.
C10_AdminStaysActive ==
    \A u \in users : u.username = AdminName => u.active

\* update_user has just written the "admin" account from a form whose
\* "active" box was not ticked
C10_Witness ==
    /\ resp.op = "update_user"
    /\ resp.status = "success"
    /\ resp.target = AdminName
    /\ resp.form[1].active = "None"
    /\ Exists(AdminName)

\* C3: a document stored by save_book is owned by the account that sent
\* the request, whatever the form's fields hold.
C3_SavedBookOwnedByRequester ==
    (resp.op = "save_book" /\ resp.status = "success") =>
        /\ resp.book \in BookIds
        /\ books[resp.book].user = resp.user
        /\ resp.user # NoUser

\* a member has saved a form that names another account as "user"
C3_Witness ==
    /\ resp.op = "save_book"
    /\ resp.status = "success"
    /\ resp.form[1].user # resp.user
    /\ resp.form[1].user = Bob

LookupFailed(r) == r.lookup \in {"error", "nothumb"}

\* C4: when the lookup of save_book or update_book fails or gives no
\* thumbnail, the save or update is still attempted (the request ends with
\* the notice of a saved/updated or of a not saved/updated document) with
\* the placeholder as thumbnail, and a document that was written carries it.
C4_FailedLookupStillPersists ==
    /\ (resp.op = "save_book" /\ resp.status # "denied" /\ LookupFailed(resp)) =>
          /\ resp.status \in {"success", "danger"}
          /\ resp.persist = Placeholder
          /\ resp.status = "success" => books[resp.book].book_thumbnail = Placeholder
    /\ (resp.op = "update_book" /\ resp.status # "denied" /\ LookupFailed(resp)
          /\ resp.book \in BookIds) =>
          /\ resp.status \in {"success", "danger"}
          /\ resp.persist = Placeholder
          /\ resp.status = "success" => books[resp.book].book_thumbnail = Placeholder

\* a document was saved although the lookup request failed
C4_Witness ==
    /\ resp.op = "save_book"
    /\ resp.lookup = "error"
    /\ resp.status = "success"
    /\ books[resp.book].book_thumbnail = Placeholder

Searched(r) == r.op = "search_results" /\ r.status = "ok"

Items(r) == {r.items[k] : k \in 1..Len(r.items)}

\* C1: the documents a search returns are the requester's own when the
\* criteria's private view is "on", and are flagged "off" otherwise.
C1_SearchRespectsVisibility ==
    Searched(resp) =>
        \A i \in Items(resp) :
            /\ i \in BookIds
            /\ IF resp.form[1].private_view = "on"
               THEN books[i].user = resp.user
               ELSE books[i].private_view = "off"

\* a private search returned the requester's document while the catalog
\* also holds another member's
C1_Witness ==
    /\ Searched(resp)
    /\ resp.form[1].private_view = "on"
    /\ resp.items # <<>>
    /\ \E i \in BookIds : books[i].user # resp.user

\* the documents whose ISBN is the number n, in the criteria's scope
ExactIsbn(n, r) ==
    {i \in BookIds : /\ books[i].ISBN = Int_(n)
                     /\ IF r.form[1].private_view = "on"
                        THEN books[i].user = r.user
                        ELSE books[i].private_view = "off"}

\* the size of page p of n documents
PageSize(n, p) ==
    IF n - (p - 1) * BooksPerPage > BooksPerPage THEN BooksPerPage
    ELSE IF n - (p - 1) * BooksPerPage < 0 THEN 0
    ELSE n - (p - 1) * BooksPerPage

\* C8: when the stored criteria give an identifier number, the search
\* returns (page by page) exactly the documents with that ISBN in the
\* criteria's scope, whatever the title, author, rating and genre criteria.
C8_IsbnGivenMeansExactMatch ==
    (resp.op = "search_results" /\ resp.status # "denied"
        /\ resp.form # <<>> /\ resp.form[1].ISBN.t = "int") =>
        /\ resp.status \in {"ok", "404"}
        /\ Items(resp) \subseteq ExactIsbn(resp.form[1].ISBN.v, resp)
        /\ resp.status = "ok" =>
              Len(resp.items) =
                 PageSize(Cardinality(ExactIsbn(resp.form[1].ISBN.v, resp)), resp.page)

\* C8 restricted to a non-zero identifier number (holds; the number 0 is
\* what C8_IsbnGivenMeansExactMatch fails on).
C8_NonZeroIsbnMeansExactMatch ==
    (resp.op = "search_results" /\ resp.status # "denied"
        /\ resp.form # <<>> /\ resp.form[1].ISBN.t = "int"
        /\ resp.form[1].ISBN.v # 0) =>
        /\ resp.status \in {"ok", "404"}
        /\ Items(resp) \subseteq ExactIsbn(resp.form[1].ISBN.v, resp)
        /\ resp.status = "ok" =>
              Len(resp.items) =
                 PageSize(Cardinality(ExactIsbn(resp.form[1].ISBN.v, resp)), resp.page)

Listed(r) ==
    /\ r.op \in {"member_page", "search_results", "admin_dashboard"}
    /\ r.status \in {"ok", "404"}

\* C9: a request for page N of member_page or search_results returns at most
\* 7 documents, one of admin_dashboard at most 10 accounts (none when the
\* pagination answers 404), and the previous and next page numbers handed to
\* the template of a rendered page are N - 1 and N + 1, first and last page
\* included.
C9_PageSizeAndLinks ==
    Listed(resp) =>
        /\ resp.op \in {"member_page", "search_results"} => Len(resp.items) <= 7
        /\ resp.op = "admin_dashboard" => Len(resp.items) <= 10
        /\ resp.status = "ok" =>
              /\ resp.page_prev = resp.page - 1
              /\ resp.page_next = resp.page + 1

\* the first page of a member's eight documents: seven are listed and the
\* previous page number is 0
C9_Witness ==
    /\ resp.op = "member_page"
    /\ resp.status = "ok"
    /\ resp.page = 1
    /\ Len(resp.items) = 7
    /\ Cardinality(MemberBooks(resp.user)) > 7
    /\ resp.page_prev = 0


Persisting(r) ==
    /\ r.op \in {"save_book", "edit_book", "update_book", "delete_book",
                 "delete_user", "admin_delete_user"}
    /\ r.status # "denied"

\* C11: a request to save_book, edit_book, update_book, delete_book,
\* delete_user or admin_delete_user never ends as an unhandled error (the
\* 500 page), whether the store fails or the document or account named by
\* the request is gone.
C11_NoFailurePropagates ==
    Persisting(resp) => resp.status # "500"

\* the document r.book as the form of request r overwrites it
Overwritten(b, r) ==
    /\ b.title = r.form[1].title
    /\ b.author = r.form[1].author
    /\ b.year = r.form[1].year
    /\ b.ISBN = r.form[1].isbn
    /\ b.short_description = r.form[1].short_description
    /\ b.comments = r.form[1].comments
    /\ b.rating = r.form[1].rating
    /\ b.genre = r.form[1].genre
    /\ b.private_view = (IF r.form[1].private_view = "on" THEN "on" ELSE "off")
    /\ b.book_thumbnail = r.persist

\* C12: whoever owns a stored document and whatever its visibility, an
\* update_book or delete_book request of any signed-in account for it
\* passes the fetch (the fetch fails for an id without a document only);
\* the write of update_book overwrites the document's fields with the
\* form's (when the store takes the values) and the write of delete_book
\* removes it (when the store does not fail).
C12_NoOwnershipCheck ==
    [][/\ (resp'.op \in {"update_book", "delete_book"} /\ Step(resp') = "get"
            /\ resp'.status = "500") =>
              resp'.book \notin BookIds
       /\ (resp'.op = "update_book" /\ resp'.store = "ok"
            /\ resp'.book \in BookIds /\ UpdateAccepts(resp'.form[1])) =>
              /\ resp'.status = "success"
              /\ resp'.book \in DOMAIN books'
              /\ Overwritten(books'[resp'.book], resp')
       /\ (resp'.op = "delete_book" /\ resp'.store = "ok"
            /\ resp'.book \in BookIds) =>
              /\ resp'.status = "success"
              /\ resp'.book \notin DOMAIN books']_vars

\* a member's update_book has overwritten a document of another member
C12_Witness ==
    /\ resp.op = "update_book"
    /\ resp.status = "success"
    /\ resp.book \in BookIds
    /\ books[resp.book].user # resp.user
    /\ Overwritten(books[resp.book], resp)

\* the accounts of us whose username is not n
Others(us, n) == {u \in us : u.username # n}

\* C13: no step of an admin_delete_user request changes an account or a
\* document of another username than the target's, or adds one; a request
\* for the account "admin" changes nothing; and once the request has
\* answered that the account is deleted, neither the account nor a document
\* of it is stored.
C13_AdminDeleteUserFrame ==
    [][(resp'.op = "admin_delete_user" /\ resp'.status # "denied") =>
          IF resp'.target \in {AdminName, NoUser}
          THEN users' = users /\ books' = books
          ELSE /\ Others(users', resp'.target) = Others(users, resp'.target)
               /\ users' \subseteq users
               /\ DOMAIN books' \subseteq BookIds
               /\ \A i \in BookIds :
                     books[i].user # resp'.target =>
                        i \in DOMAIN books' /\ books'[i] = books[i]
               /\ \A i \in DOMAIN books' : books'[i] = books[i]
               /\ resp'.status = "success" =>
                     /\ ~(\E u \in users' : u.username = resp'.target)
                     /\ \A i \in DOMAIN books' : books'[i].user # resp'.target]_vars

\* C14: a session's stored criteria change only by a save_search request of
\* that session, which puts the submitted form in place of them and leaves
\* the other sessions' criteria alone; a search_results request for any
\* page reads the criteria its own session holds, answers the page of the
\* query they select, and changes neither the sessions nor the catalog.
C14_TwoPhaseSearch ==
    [][/\ \A s \in Sessions :
             sessions'[s].fields # sessions[s].fields =>
                /\ resp'.op = "save_search"
                /\ resp'.session = s
       /\ (resp'.op = "save_search" /\ resp'.status # "denied") =>
             /\ sessions'[resp'.session].fields = resp'.form
             /\ Len(resp'.form) = 1
             /\ books' = books /\ users' = users
       /\ (resp'.op = "search_results" /\ resp'.status # "denied") =>
             /\ sessions' = sessions
             /\ books' = books /\ users' = users
             /\ resp'.status # "wait" =>
                   resp'.form = sessions[resp'.session].fields
             /\ resp'.status = "ok" =>
                   resp'.items =
                      Paginate(SearchSeq(sessions[resp'.session].fields[1], resp'.user),
                               resp'.page, BooksPerPage).items]_vars

\* one session lists a page of its search while the other session holds
\* different criteria
C14_Witness ==
    /\ resp.op = "search_results"
    /\ resp.status = "ok"
    /\ resp.items # <<>>
    /\ resp.form = sessions[resp.session].fields
    /\ \E x \in Sessions :
          /\ x # resp.session
          /\ sessions[x].fields # <<>>
          /\ sessions[x].fields # resp.form

\* C15: an update_book request leaves every document but the one it names
\* as it was, adds and removes none, and leaves the named document's owner
\* and creation date as they were, whoever sends the request and whatever
\* the form holds; the accounts are unchanged.
C15_UpdateBookFrame ==
    [][(resp'.op = "update_book" /\ resp'.status # "denied") =>
          /\ DOMAIN books' = BookIds
          /\ users' = users
          /\ \A i \in BookIds :
                /\ i # resp'.book => books'[i] = books[i]
                /\ books'[i].user = books[i].user
                /\ books'[i].creation_date = books[i].creation_date]_vars

\* a document was updated, by a member who does not own it and from a form
\* naming a third account as "user", next to another document
C15_Witness ==
    /\ resp.op = "update_book"
    /\ resp.status = "success"
    /\ resp.book \in BookIds
    /\ books[resp.book].user \notin {resp.user, resp.form[1].user}
    /\ books[resp.book].title = resp.form[1].title
    /\ Cardinality(BookIds) > 1

\* the account of us with the id of u
Same(us, u) == {v \in us : v.id = u.id}

\* C16: no step changes the username or the roles of a stored account;
\* a step of update_user changes the target's activation flag, email, first
\* name, last name and password at most and no other account; so an
\* account holds the "Admin" role only if home_page created it as "admin",
\* and an account that registration created holds the basic role alone.
C16_UsernameAndRolesFixed ==
    [][/\ \A u \in users : \A v \in Same(users', u) :
             v.username = u.username /\ v.roles = u.roles
       /\ (resp'.op = "update_user" /\ resp'.status # "denied") =>
             /\ {v.id : v \in users'} = UserIds
             /\ \A u \in users : \A v \in Same(users', u) :
                   /\ u.username # resp'.target => v = u
                   /\ v = [u EXCEPT !.active = v.active, !.email = v.email,
                                    !.first_name = v.first_name,
                                    !.last_name = v.last_name,
                                    !.password = v.password]
       /\ \A v \in users' :
             /\ HasRole(v, "Admin") =>
                   /\ v.username = AdminName /\ v.roles = AdminUser.roles
                   /\ Same(users, v) = {} => resp'.op = "home_page"
             /\ (Same(users, v) = {} /\ resp'.op = "register") =>
                   v.roles = <<"user">>]_vars

\* update_user has rewritten the profile and password of a registered
\* member, who still holds the basic role alone
C16_Witness ==
    /\ resp.op = "update_user"
    /\ resp.status = "success"
    /\ resp.target = Ann
    /\ Exists(Ann)
    /\ UserNamed(Ann).password = HashPassword("pw1")
    /\ UserNamed(Ann).roles = <<"user">>
    /\ \E u \in users : HasRole(u, "Admin")
====
